---- MODULE Spec2Model ----
(***************************************************************************)
(* Price snapshot extraction and multi-hotel orchestration of the Booking  *)
(* price scraper (src/src/scrapers/price_scraper.py), with the session     *)
(* factory of src/src/scrapers/stealth_config.py.                          *)
(*                                                                         *)
(* Four specifications:                                                    *)
(*   SpecHotel  scrape_hotel_with_page, one step of the procedure per      *)
(*              action, for one hotel and one date window;                 *)
(*   Spec       scrape_multiple_hotels and its three strategies, the       *)
(*              per-hotel procedure being run to completion by the         *)
(*              operator scrape_hotel_with_page on a page behaviour;       *)
(*   SpecRun    run_price_scraping (src/src/scheduler/run_price_scraper.py) *)
(*              around scrape_multiple_hotels;                             *)
(*   SpecFn     one call of a function of price_scraper.py on an argument  *)
(*              of its own.                                                *)
(*                                                                         *)
(* A python date is its ordinal (an integer); a "%Y-%m-%d" string is the   *)
(* triple <<year, month, day>>, compared as the fixed-width string is.     *)
(* None is <<>> and an Optional value x is <<x>>; an absent price is       *)
(* NoPrice.                                                                *)
(***************************************************************************)
EXTENDS Integers, Sequences, FiniteSets, TLC

VARIABLES
    dates,          \* the date window: sequence of ordinals
    hpc,            \* scrape_hotel_with_page: position in the procedure
    attempt,        \* scrape_hotel_with_page: loop variable of the retry loop
    calendar_days,  \* scrape_hotel_with_page: checkin string -> [price, available]
    snapshots,      \* scrape_hotel_with_page: the returned list
    slept,          \* backoff delays slept so far in the retry loop (tenths of a second)
    excAt,          \* history: the step whose exception the except clause caught
    lastSeen,       \* history: per checkin string, the last observation a scan returned
    strategy,       \* scrape_multiple_hotels: strategy selector
    hotels,         \* the input list of hotels
    opc,            \* position of the running strategy
    i,              \* loop index of the sequential strategies (1-based)
    stats,          \* the RunStats dictionary
    all_snapshots,  \* the flat snapshot list
    sess,           \* session id -> [browser, driver] of every session acquired
    page,           \* strategy 2: the tab the variable page refers to
    tabs,           \* strategy 2: the tabs of the shared context that are open
    pauses,         \* number of pacing delays slept
    task,           \* strategy 3: per hotel index, position of scrape_one
    res,            \* strategy 3: per hotel index, the future's result
    collected,      \* strategy 3: hotel indexes whose future the loop has consumed
    procResult,     \* sequential strategies: result of the running procedure
    navFailed,      \* history: hotel indexes whose page.goto raised
    acqFailed,      \* history: hotel indexes whose session or tab acquisition raised
    steps,          \* history: the steps scrape_hotel_with_page has executed, in order
    rpc,            \* run_price_scraping: position in the run
    all_hotels,     \* run_price_scraping: the monitored hotels of the store
    session_number, \* run_price_scraping: argument (None, 1 or 2)
    hotel_limit,    \* run_price_scraping: argument (None or an integer)
    max_dates_per_hotel, \* run_price_scraping: argument (None or an integer)
    j_plus,         \* run_price_scraping: argument (None or an integer)
    result,         \* run_price_scraping: the returned dictionary
    saved,          \* the snapshot lists the persistence layer has accepted
    log,            \* status of the scraper log row of the run
    calls,          \* history: the calls made to the store, in order
    fn,             \* the pure function last called
    arg,            \* its argument
    ret             \* its result

hotelVars == <<hpc, attempt, calendar_days, snapshots, slept, excAt, lastSeen, steps>>
orchVars == <<strategy, hotels, opc, i, stats, all_snapshots, sess, page, tabs,
              pauses, task, res, collected, procResult, navFailed, acqFailed>>
runVars == <<rpc, all_hotels, session_number, hotel_limit, max_dates_per_hotel, j_plus,
             result, saved, log, calls>>
fnVars == <<fn, arg, ret>>
vars == <<dates, hotelVars, orchVars, runVars, fnVars>>

---------------------------------------------------------------------------
(* Bounds of the model *)

MaxOffset == 2      \* day offsets of a request range over 1..MaxOffset
MaxOffsets == 2     \* longest list of day offsets of a request
MaxCells == 2       \* most cells the rendered grid shows in one scan
MaxHotels == 3      \* longest hotel list
MaxEntries == 2     \* most entries of a 'days' sequence of a payload

(* Program constants *)

HORIZON == 30           \* range(1, 31)
MAX_ATTEMPTS == 3       \* range(3)
MIN_OBSERVATIONS == 3   \* min(3, total)
MIN_PRICE == 10         \* price >= 10
MIN_CELLS == 5          \* cells.length < 5
MAX_PRICE == 10000      \* p < 10000
max_workers == 2        \* max_workers=2
SESSION_SIZE == 3       \* all_hotels[:3], all_hotels[3:6]

None == <<>>
Some(x) == <<x>>
NoPrice == 0 - 1
NoDate == <<>>

Min(a, b) == IF a <= b THEN a ELSE b

---------------------------------------------------------------------------
(* Dates *)

\* date.today(): 2026-12-30, so that a window crosses a month and a year
Today == 29

\* a format that puts the day first, "%d-%m-%Y"
strftime_DayFirst(d) ==
    IF d <= 30 THEN <<d + 1, 12, 2026>>
    ELSE IF d <= 61 THEN <<d - 30, 1, 2027>>
    ELSE <<d - 61, 2, 2027>>

\* strftime(DATE_FMT) of the ordinal d, ordinal 0 being 2026-12-01
strftime(d) ==
    IF d <= 30 THEN <<2026, 12, d + 1>>
    ELSE IF d <= 61 THEN <<2027, 1, d - 30>>
    ELSE <<2027, 2, d - 61>>

\* python's < on two "%Y-%m-%d" strings
StrLess(a, b) ==
    \/ a[1] < b[1]
    \/ a[1] = b[1] /\ a[2] < b[2]
    \/ a[1] = b[1] /\ a[2] = b[2] /\ a[3] < b[3]

RECURSIVE InsertInt(_, _)
InsertInt(s, x) ==
    IF s = <<>> THEN <<x>>
    ELSE IF x < s[1] THEN <<x>> \o s
    ELSE <<s[1]>> \o InsertInt(Tail(s), x)

\* sorted() of a list of integers or of dates
RECURSIVE sorted(_)
sorted(s) ==
    IF s = <<>> THEN <<>>
    ELSE InsertInt(sorted(SubSeq(s, 1, Len(s) - 1)), s[Len(s)])

\* a window that starts today: range(0, 30)
get_next_30_days_FromToday(max_dates) ==
    LET days == [k \in 1..HORIZON |-> Today + k - 1]
    IN  IF max_dates # None /\ max_dates[1] > 0
        THEN SubSeq(days, 1, Min(max_dates[1], HORIZON))
        ELSE days

get_next_30_days(max_dates) ==
    LET days == [k \in 1..HORIZON |-> Today + k]
    IN  IF max_dates # None /\ max_dates[1] > 0
        THEN SubSeq(days, 1, Min(max_dates[1], HORIZON))
        ELSE days

get_dates_from_offsets(offsets) ==
    LET s == sorted(offsets)
    IN  [k \in 1..Len(s) |-> Today + s[k]]

\* lines 486-490 and 334-338: the window a request gets
BuildWindow(max_dates, date_offsets) ==
    sorted(IF date_offsets # None
           THEN get_dates_from_offsets(date_offsets[1])
           ELSE get_next_30_days(max_dates))

SeqsUpTo(S, n) == UNION {[1..k -> S] : k \in 0..n}

\* the requests of the model: explicit offsets, a cap on the default window,
\* or the default window
OffsetLists == SeqsUpTo(1..MaxOffset, MaxOffsets)
Windows ==
    {BuildWindow(None, Some(o)) : o \in OffsetLists}
    \cup {BuildWindow(Some(c), None) : c \in 1..MaxOffsets}
    \cup {BuildWindow(None, None)}

---------------------------------------------------------------------------
(* Price text normalizer: _parse_avg_price and _merge_days_into *)

\* A text is the sequence of its characters; NBSP is the character "\xa0" and
\* TAB the character "\t". A float is its value in hundredths.
NBSP == "nbsp"
TAB == "tab"
EURO == "€"
Digits == {"0", "1", "2", "3", "4", "5", "6", "7", "8", "9"}
DigitVal(c) == CHOOSE v \in 0..9 : ToString(v) = c
IsSpace(c) == c \in {" ", TAB, NBSP}

\* str.replace("\xa0", " ")
ReplaceNbsp(t) == [k \in 1..Len(t) |-> IF t[k] = NBSP THEN " " ELSE t[k]]

\* str.strip()
RECURSIVE strip(_)
strip(t) ==
    IF t = <<>> THEN t
    ELSE IF IsSpace(t[1]) THEN strip(Tail(t))
    ELSE IF IsSpace(t[Len(t)]) THEN strip(SubSeq(t, 1, Len(t) - 1))
    ELSE t

\* the position after the longest run of characters of S that starts at p
RECURSIVE SkipWhile(_, _, _)
SkipWhile(t, p, S) ==
    IF p <= Len(t) /\ t[p] \in S THEN SkipWhile(t, p + 1, S) ELSE p

\* (\d[\d\s]*(?:[.,]\d{2})?) matched at the digit of position p: the greedy
\* run of digits and blanks, then the two decimals when they follow
GroupAt(t, p) ==
    LET q == SkipWhile(t, p, Digits \cup {" ", TAB})
        decimals == /\ q + 2 <= Len(t)
                    /\ t[q] \in {".", ","}
                    /\ t[q + 1] \in Digits
                    /\ t[q + 2] \in Digits
    IN  SubSeq(t, p, IF decimals THEN q + 2 ELSE q - 1)

\* the positions where "€\s*\d" matches, and the digit each reaches
EuroMatches(t) ==
    {e \in 1..Len(t) :
        /\ t[e] = EURO
        /\ LET p == SkipWhile(t, e + 1, {" ", TAB}) IN p <= Len(t) /\ t[p] \in Digits}
DigitPositions(t) == {p \in 1..Len(t) : t[p] \in Digits}
MinOf(S) == CHOOSE x \in S : \A y \in S : x <= y

\* line 77: group 1 of the first pattern that matches, None when neither does
SearchPrice(t) ==
    IF EuroMatches(t) # {}
    THEN Some(GroupAt(t, SkipWhile(t, MinOf(EuroMatches(t)) + 1, {" ", TAB})))
    ELSE IF DigitPositions(t) # {} THEN Some(GroupAt(t, MinOf(DigitPositions(t))))
    ELSE None

\* str.replace(" ", "").replace(",", ".")
RECURSIVE Squeeze(_)
Squeeze(t) ==
    IF t = <<>> THEN <<>>
    ELSE IF t[1] = " " THEN Squeeze(Tail(t))
    ELSE <<IF t[1] = "," THEN "." ELSE t[1]>> \o Squeeze(Tail(t))

RECURSIVE DigitsValue(_)
DigitsValue(t) ==
    IF t = <<>> THEN 0 ELSE 10 * DigitsValue(SubSeq(t, 1, Len(t) - 1)) + DigitVal(t[Len(t)])

\* float(s) in hundredths, None for the ValueError of a text that is not a number
float(s) ==
    LET u == strip(s)
        dot == {k \in 1..Len(u) : u[k] = "."}
        k == IF dot = {} THEN Len(u) + 1 ELSE MinOf(dot)
        whole == SubSeq(u, 1, k - 1)
        frac == SubSeq(u, k + 1, Len(u))
    IN  IF u = <<>> \/ (\E x \in 1..Len(u) : u[x] \notin Digits \cup {"."})
           \/ Cardinality(dot) > 1 \/ (whole = <<>> /\ frac = <<>>)
        THEN None
        ELSE Some(100 * DigitsValue(whole)
                  + (IF Len(frac) = 0 THEN 0
                     ELSE IF Len(frac) = 1 THEN 10 * DigitsValue(frac)
                     ELSE DigitsValue(SubSeq(frac, 1, 2))))

\* lines 69-87
_parse_avg_price(formatted) ==
    IF formatted = <<>> THEN None
    ELSE LET text == strip(ReplaceNbsp(formatted))
             m == SearchPrice(text)
         IN  IF m = None THEN None
             ELSE LET sq == Squeeze(m[1])
                      p == float(sq)
                  IN  IF sq = <<>> \/ p = None THEN None
                      ELSE IF p[1] >= MIN_PRICE * 100 /\ p[1] < MAX_PRICE * 100 THEN p ELSE None

\* the formatted prices of the model
PriceTexts ==
    {<<>>,
     <<EURO, " ", "1", "5", "2">>,
     <<EURO, " ", "0">>,
     <<EURO, " ", "3">>,
     <<EURO, " ", "1", "0">>,
     <<EURO, " ", "1", " ", "2", "5", "0", ",", "5", "0">>,
     <<EURO, NBSP, "9", NBSP, "9", "9", "9", ".", "9", "9">>,
     <<EURO, " ", "1", "0", " ", "0", "0", "0">>,
     <<EURO, " ", "1", TAB, "2", "5", "0">>,
     <<" ", "1", "5", "2", " ", EURO, " ">>,
     <<"d", "e", "s", " ", EURO, " ", "9", "5", ",", "5">>,
     <<"-">>}

\* "0" in formatted
HasZero(t) == \E k \in 1..Len(t) : t[k] = "0"

\* body of the loop of _merge_days_into for one day, lines 177-185; the
\* stored price is in hundredths
MergeDay(cal, d) ==
    IF d.checkin = NoDate THEN cal
    ELSE LET formatted == strip(d.avgPriceFormatted)
             price == IF d.available THEN _parse_avg_price(formatted) ELSE None
             available == IF price = None /\ d.available /\ HasZero(formatted)
                          THEN FALSE ELSE d.available
         IN  [x \in DOMAIN cal \cup {d.checkin} |->
                 IF x = d.checkin
                 THEN [price |-> IF price = None THEN NoPrice ELSE price[1],
                       available |-> available]
                 ELSE cal[x]]

\* lines 170-185
RECURSIVE _merge_days_into(_, _)
_merge_days_into(cal, days) ==
    IF days = <<>> THEN cal
    ELSE _merge_days_into(MergeDay(cal, days[1]), Tail(days))

F_parse_avg_price ==
    /\ fn = "call" /\ arg.f = "_parse_avg_price"
    /\ arg' = arg.x
    /\ ret' = _parse_avg_price(arg.x)
    /\ fn' = "_parse_avg_price"
    /\ UNCHANGED <<dates, hotelVars, orchVars, runVars>>

---------------------------------------------------------------------------
(* Rendered-grid search *)

\* what one cell of the scanned family shows: its derived checkin string
\* (NoDate when it has no usable data-date), the number its price text
\* parses to (NoPrice when none) and whether it carries a disabled marker
CellDates == {strftime(Today + k) : k \in 1..MaxOffset}
CellKinds ==
    {<<NoPrice, FALSE>>, <<5, FALSE>>, <<120, FALSE>>, <<120, TRUE>>, <<12000, FALSE>>}
Cells ==
    {[checkin |-> d, price |-> k[1], disabled |-> k[2]] : d \in CellDates, k \in CellKinds}
    \cup {[checkin |-> NoDate, price |-> 120, disabled |-> FALSE]}
CellLists == SeqsUpTo(Cells, MaxCells)

\* what one call of _extract_calendar_from_dom meets: page.evaluate raises,
\* or the scan runs over the cells of the page
Raises == [raises |-> TRUE, cells |-> <<>>]
Shows(cells) == [raises |-> FALSE, cells |-> cells]
\* the cells of the pages of the procedure model: per date a disabled cell, a
\* cell with a price and a cell with a price of five digits, and a cell
\* without a date
PageCells ==
    {c \in Cells : <<c.price, c.disabled>> \in {<<120, TRUE>>, <<120, FALSE>>, <<12000, FALSE>>}}
Scans == {Raises} \cup {Shows(c) : c \in SeqsUpTo(PageCells, MaxCells)}

EmptyCal == [d \in {} |-> [price |-> NoPrice, available |-> FALSE]]

\* a scan where the last cell of a date wins, whatever it shows
ScanCell_LastWins(out, cell) ==
    IF cell.checkin = NoDate THEN out
    ELSE LET available == ~cell.disabled /\ cell.price # NoPrice /\ cell.price >= MIN_PRICE
             entry == [price |-> IF available THEN cell.price ELSE NoPrice,
                       available |-> available]
         IN  [d \in DOMAIN out \cup {cell.checkin} |->
                 IF d = cell.checkin THEN entry ELSE out[d]]

\* body of the JS loop for one cell, lines 208-233
ScanCell(out, cell) ==
    IF cell.checkin = NoDate THEN out
    ELSE LET available == ~cell.disabled /\ cell.price # NoPrice /\ cell.price >= MIN_PRICE
             entry == [price |-> IF available THEN cell.price ELSE NoPrice,
                       available |-> available]
         IN  IF cell.checkin \notin DOMAIN out \/ available
             THEN [d \in DOMAIN out \cup {cell.checkin} |->
                      IF d = cell.checkin THEN entry ELSE out[d]]
             ELSE out

RECURSIVE ScanCells(_, _)
ScanCells(out, cells) ==
    IF cells = <<>> THEN out
    ELSE ScanCells(ScanCell(out, cells[1]), Tail(cells))

_extract_calendar_from_dom(cells) == ScanCells(EmptyCal, cells)

\* the three selector families of lines 200-205, in the order they are tried:
\* 'main table tbody tr td', '[data-date]', 'table tbody tr td'
Families == 1..3

\* the documents of the model: what document.querySelectorAll returns for each
\* family, from no cell to one more than MIN_CELLS; the cells of a family
\* show the price 100 + its number
CellCounts == {0, MIN_CELLS - 1, MIN_CELLS, MIN_CELLS + 1}
FamilyCells(k, n) ==
    [c \in 1..n |-> [checkin |-> strftime(Today + 1), price |-> 100 + k, disabled |-> FALSE]]
Documents ==
    {[k \in Families |-> FamilyCells(k, n[k])] : n \in [Families -> CellCounts]}

\* a search that stops at the first family yielding any cell
SelectCells_FirstNonEmpty(doc) ==
    IF Len(doc[1]) > 0 THEN [queried |-> <<1>>, cells |-> doc[1]]
    ELSE IF Len(doc[2]) > 0 THEN [queried |-> <<1, 2>>, cells |-> doc[2]]
    ELSE [queried |-> <<1, 2, 3>>, cells |-> doc[3]]

\* lines 200-206: the families queried, in order, and the cells the loop scans
SelectCells(doc) ==
    IF ~(Len(doc[1]) < MIN_CELLS) THEN [queried |-> <<1>>, cells |-> doc[1]]
    ELSE IF ~(Len(doc[2]) < MIN_CELLS) THEN [queried |-> <<1, 2>>, cells |-> doc[2]]
    ELSE [queried |-> <<1, 2, 3>>, cells |-> doc[3]]

\* lines 195-238: the function page.evaluate runs in the document
F_evaluate ==
    /\ fn = "call" /\ arg.f = "page.evaluate"
    /\ arg' = arg.x
    /\ ret' = LET sel == SelectCells(arg.x)
              IN  [queried |-> sel.queried, cells |-> sel.cells,
                   out |-> _extract_calendar_from_dom(sel.cells)]
    /\ fn' = "page.evaluate"
    /\ UNCHANGED <<dates, hotelVars, orchVars, runVars>>

\* the days of a payload of the model: a day reported available with each
\* kind of formatted price, a day reported unavailable, a day without checkin
DayTexts ==
    {<<>>,
     <<EURO, " ", "1", "5", "2">>,
     <<EURO, " ", "0">>,
     <<EURO, " ", "3">>,
     <<EURO, " ", "1", "0", " ", "0", "0", "0">>,
     <<"-">>}
Days ==
    {[checkin |-> d, available |-> TRUE, avgPriceFormatted |-> t] : d \in CellDates, t \in DayTexts}
    \cup {[checkin |-> d, available |-> FALSE, avgPriceFormatted |-> <<EURO, " ", "1", "5", "2">>] :
             d \in CellDates}
    \cup {[checkin |-> NoDate, available |-> TRUE, avgPriceFormatted |-> <<EURO, " ", "1", "5", "2">>]}
DayLists == SeqsUpTo(Days, MaxCells)

\* the maps a call of _merge_days_into may start from
StartCals ==
    {EmptyCal,
     [d \in {strftime(Today + 1)} |-> [price |-> 15200, available |-> TRUE]]}

F_merge_days_into ==
    /\ fn = "call" /\ arg.f = "_merge_days_into"
    /\ arg' = arg.x
    /\ ret' = _merge_days_into(arg.x.calendar_days, arg.x.days)
    /\ fn' = "_merge_days_into"
    /\ UNCHANGED <<dates, hotelVars, orchVars, runVars>>

F_extract_calendar_from_dom ==
    /\ fn = "call" /\ arg.f = "_extract_calendar_from_dom"
    /\ arg' = arg.x
    /\ ret' = _extract_calendar_from_dom(arg.x)
    /\ fn' = "_extract_calendar_from_dom"
    /\ UNCHANGED <<dates, hotelVars, orchVars, runVars>>

---------------------------------------------------------------------------
(* scrape_hotel_with_page *)

\* the n-th hotel of the input list: its id and its display name
HotelOf(n) == [id |-> 100 - n, name |-> n]

\* lines 299-300: calendar_days[checkin] = info for every entry of dom_data
MergeDom(cal, dom) ==
    [d \in DOMAIN cal \cup DOMAIN dom |-> IF d \in DOMAIN dom THEN dom[d] ELSE cal[d]]

\* lines 301-302: the break test of the retry loop
LoopBreaks(cal, total) == Cardinality(DOMAIN cal) >= Min(MIN_OBSERVATIONS, total)

\* line 296: time.sleep(1.5 + attempt), in tenths of a second
Backoff(a) == 15 + 10 * a

\* a retry loop whose exception costs the observations merged so far
AttemptStep_DropsOnRaise(cal, a, scan, total) ==
    IF scan.raises THEN [cal |-> EmptyCal, next |-> "except"]
    ELSE LET dom_data == _extract_calendar_from_dom(scan.cells)
             merged == IF DOMAIN dom_data # {} THEN MergeDom(cal, dom_data) ELSE cal
         IN  [cal |-> merged,
              next |-> IF DOMAIN dom_data # {} /\ LoopBreaks(merged, total) THEN "break"
                       ELSE IF a + 1 < MAX_ATTEMPTS THEN "continue"
                       ELSE "exhausted"]

\* a retry loop that stops at the first scan that returns anything
AttemptStep_BreaksOnAny(cal, a, scan, total) ==
    IF scan.raises THEN [cal |-> cal, next |-> "except"]
    ELSE LET dom_data == _extract_calendar_from_dom(scan.cells)
             merged == IF DOMAIN dom_data # {} THEN MergeDom(cal, dom_data) ELSE cal
         IN  [cal |-> merged,
              next |-> IF DOMAIN dom_data # {} THEN "break"
                       ELSE IF a + 1 < MAX_ATTEMPTS THEN "continue"
                       ELSE "exhausted"]

\* one iteration of the retry loop, lines 295-302
AttemptStep(cal, a, scan, total) ==
    IF scan.raises THEN [cal |-> cal, next |-> "except"]
    ELSE LET dom_data == _extract_calendar_from_dom(scan.cells)
             merged == IF DOMAIN dom_data # {} THEN MergeDom(cal, dom_data) ELSE cal
         IN  [cal |-> merged,
              next |-> IF DOMAIN dom_data # {} /\ LoopBreaks(merged, total) THEN "break"
                       ELSE IF a + 1 < MAX_ATTEMPTS THEN "continue"
                       ELSE "exhausted"]

\* a snapshot that is available as soon as the map has an entry for its date
SnapshotOf_AvailableIfSeen(hotel, d, cal) ==
    LET checkin_str == strftime(d)
        present == checkin_str \in DOMAIN cal
        price == IF present THEN cal[checkin_str].price ELSE NoPrice
    IN  [hotelId |-> hotel.id,
         dateCheckin |-> checkin_str,
         price |-> price,
         currency |-> "EUR",
         available |-> present]

\* lines 309-319: the snapshot of one date
SnapshotOf(hotel, d, cal) ==
    LET checkin_str == strftime(d)
        present == checkin_str \in DOMAIN cal
        price == IF present THEN cal[checkin_str].price ELSE NoPrice
    IN  [hotelId |-> hotel.id,
         dateCheckin |-> checkin_str,
         price |-> price,
         currency |-> "EUR",
         available |-> IF present THEN price # NoPrice ELSE FALSE]

RECURSIVE InsertSnap(_, _)
InsertSnap(s, x) ==
    IF s = <<>> THEN <<x>>
    ELSE IF StrLess(x.dateCheckin, s[1].dateCheckin) THEN <<x>> \o s
    ELSE <<s[1]>> \o InsertSnap(Tail(s), x)

\* line 322: sorted(snapshots, key=dateCheckin), a stable sort
RECURSIVE SortedByDate(_)
SortedByDate(s) ==
    IF s = <<>> THEN <<>>
    ELSE InsertSnap(SortedByDate(SubSeq(s, 1, Len(s) - 1)), s[Len(s)])

\* lines 307-322: step 6
AssembleSnapshots(hotel, ds, cal) ==
    SortedByDate([k \in 1..Len(ds) |-> SnapshotOf(hotel, ds[k], cal)])

\* lines 248-257: dates[0] raises on an empty window, before the try block
H_Enter ==
    /\ hpc = "start"
    /\ hpc' = IF Len(dates) = 0 THEN "raised" ELSE "goto"
    /\ UNCHANGED <<attempt, calendar_days, snapshots, slept, excAt, lastSeen, steps>>
    /\ UNCHANGED <<dates, orchVars, runVars, fnVars>>

\* A step of the try block completes, or raises into the except clause of
\* lines 304-305, after which step 6 runs.

\* lines 260-263: step 1, page.goto
H_Goto ==
    /\ hpc = "goto"
    /\ \E ok \in BOOLEAN :
          /\ hpc' = IF ok THEN "cookies" ELSE "assemble"
          /\ excAt' = IF ok THEN excAt ELSE "goto"
    /\ UNCHANGED <<attempt, calendar_days, snapshots, slept, lastSeen>>
    /\ steps' = Append(steps, "navigate")
    /\ UNCHANGED <<dates, orchVars, runVars, fnVars>>

\* lines 265-268: step 2; _accept_cookies_if_present swallows every exception
\* of its own (hotel_info_scraper.py, lines 104-114)
H_Cookies ==
    /\ hpc = "cookies"
    /\ hpc' = "scroll"
    /\ UNCHANGED <<attempt, calendar_days, snapshots, slept, excAt, lastSeen>>
    /\ steps' = Append(steps, "consent")
    /\ UNCHANGED <<dates, orchVars, runVars, fnVars>>

\* lines 270-273: step 3, the scroll
H_Scroll ==
    /\ hpc = "scroll"
    /\ \E ok \in BOOLEAN :
          /\ hpc' = IF ok THEN "locate" ELSE "assemble"
          /\ excAt' = IF ok THEN excAt ELSE "scroll"
    /\ UNCHANGED <<attempt, calendar_days, snapshots, slept, lastSeen>>
    /\ steps' = Append(steps, "scroll")
    /\ UNCHANGED <<dates, orchVars, runVars, fnVars>>

\* a procedure that goes on to the click when the date button never shows
H_Locate_GoesOn ==
    /\ hpc = "locate"
    /\ \E ok \in BOOLEAN :
          /\ hpc' = "click"
          /\ excAt' = IF ok THEN excAt ELSE "locate"
    /\ UNCHANGED <<attempt, calendar_days, snapshots, slept, lastSeen>>
    /\ steps' = Append(steps, "locate")
    /\ UNCHANGED <<dates, orchVars, runVars, fnVars>>

\* lines 275-280: step 4, the date button becomes visible
H_Locate ==
    /\ hpc = "locate"
    /\ \E ok \in BOOLEAN :
          /\ hpc' = IF ok THEN "click" ELSE "assemble"
          /\ excAt' = IF ok THEN excAt ELSE "locate"
    /\ UNCHANGED <<attempt, calendar_days, snapshots, slept, lastSeen>>
    /\ steps' = Append(steps, "locate")
    /\ UNCHANGED <<dates, orchVars, runVars, fnVars>>

\* lines 282-288: step 5, the click
H_Click ==
    /\ hpc = "click"
    /\ \E ok \in BOOLEAN :
          /\ hpc' = IF ok THEN "wait" ELSE "assemble"
          /\ excAt' = IF ok THEN excAt ELSE "click"
    /\ UNCHANGED <<attempt, calendar_days, snapshots, slept, lastSeen>>
    /\ steps' = Append(steps, "activate")
    /\ UNCHANGED <<dates, orchVars, runVars, fnVars>>

\* lines 290-293: the visibility wait, whose timeout is swallowed
H_WaitCalendar ==
    /\ hpc = "wait"
    /\ hpc' = "extract"
    /\ attempt' = 0
    /\ UNCHANGED <<calendar_days, snapshots, slept, excAt, lastSeen>>
    /\ steps' = Append(steps, "wait")
    /\ UNCHANGED <<dates, orchVars, runVars, fnVars>>

H_Attempt ==
    /\ hpc = "extract"
    /\ \E scan \in Scans :
          LET r == AttemptStep(calendar_days, attempt, scan, Len(dates))
              dom == IF scan.raises THEN EmptyCal ELSE _extract_calendar_from_dom(scan.cells)
          IN  /\ calendar_days' = r.cal
              /\ slept' = Append(slept, Backoff(attempt))
              /\ hpc' = IF r.next = "continue" THEN "extract" ELSE "assemble"
              /\ attempt' = IF r.next = "continue" THEN attempt + 1 ELSE attempt
              /\ excAt' = IF r.next = "except" THEN "extract" ELSE excAt
              /\ lastSeen' = [d \in DOMAIN lastSeen \cup DOMAIN dom |->
                                 IF d \in DOMAIN dom THEN dom[d] ELSE lastSeen[d]]
    /\ UNCHANGED snapshots
    /\ steps' = Append(steps, "extract")
    /\ UNCHANGED <<dates, orchVars, runVars, fnVars>>

H_Assemble ==
    /\ hpc = "assemble"
    /\ snapshots' = AssembleSnapshots(HotelOf(1), dates, calendar_days)
    /\ hpc' = "returned"
    /\ UNCHANGED <<attempt, calendar_days, slept, excAt, lastSeen>>
    /\ steps' = Append(steps, "assemble")
    /\ UNCHANGED <<dates, orchVars, runVars, fnVars>>

HotelIdle ==
    /\ hpc = "start"
    /\ attempt = 0
    /\ calendar_days = EmptyCal
    /\ snapshots = <<>>
    /\ slept = <<>>
    /\ excAt = "none"
    /\ lastSeen = EmptyCal
    /\ steps = <<>>

---------------------------------------------------------------------------
(* The procedure run to completion, as the strategies call it *)

\* what the page does during one call: the step of the try block that raises
\* ("none" when none does) and what each of the three scans meets; in the
\* orchestration model the grid stays empty until one scan, and stays as that
\* scan met it
RECURSIVE RetryLoop(_, _, _, _)
RetryLoop(cal, a, scans, total) ==
    LET r == AttemptStep(cal, a, scans[a + 1], total)
    IN  IF r.next = "continue" THEN RetryLoop(r.cal, a + 1, scans, total) ELSE r.cal

\* lines 248-322; raised: the exception of dates[0] on an empty window, which
\* no except clause of the procedure catches
scrape_hotel_with_page(hotel, ds, script) ==
    IF Len(ds) = 0 THEN [raised |-> TRUE, snapshots |-> <<>>]
    ELSE LET cal == IF script.fail # "none" THEN EmptyCal
                    ELSE RetryLoop(EmptyCal, 0, script.scans, Len(ds))
         IN  [raised |-> FALSE, snapshots |-> AssembleSnapshots(hotel, ds, cal)]

\* the page behaviours of the orchestration model
FirstCell(ds) ==
    [checkin |-> strftime(ds[1]), price |-> 120, disabled |-> FALSE]
OrchScans(ds) ==
    {Raises, Shows(<<>>)} \cup (IF Len(ds) = 0 THEN {} ELSE {Shows(<<FirstCell(ds)>>)})
Scripts(ds) ==
    {[fail |-> f, scans |-> [a \in 1..MAX_ATTEMPTS |-> Shows(<<>>)]] : f \in {"goto", "locate"}}
    \cup {[fail |-> "none", scans |-> [a \in 1..MAX_ATTEMPTS |-> IF a < b THEN Shows(<<>>) ELSE sc]] :
             b \in 1..MAX_ATTEMPTS, sc \in OrchScans(ds)}

---------------------------------------------------------------------------
(* Sessions: create_stealth_browser_full and close_browser_full *)

\* a session is "open" (browser open, driver running), "closed" (browser
\* closed and driver stopped) or "leaked" (its release ended in an exception:
\* the driver, at least, still runs)
OpenSession == "open"

\* lines 129-136 of stealth_config.py: browser.close() then playwright.stop(),
\* any exception swallowed; an exception of browser.close() skips the stop, and
\* one of playwright.stop() leaves the driver as it is
close_browser_full(s, outcome) ==
    IF outcome = "ok" THEN "closed" ELSE "leaked"
CloseOutcomes == {"ok", "raises"}

IsOpen(s) == s # "closed"
OpenSessions == {k \in DOMAIN sess : IsOpen(sess[k])}

WithSession(k, s) == [x \in DOMAIN sess \cup {k} |-> IF x = k THEN s ELSE sess[x]]

---------------------------------------------------------------------------
(* RunStats *)

NewStats(hs) ==
    [total_hotels |-> Len(hs), total_snapshots |-> 0, successful_hotels |-> 0,
     failed_hotels |-> 0, errors |-> <<>>]

\* a success that forgets the snapshot counter
RecordSuccess_NoCount(st, snaps) ==
    [st EXCEPT !.successful_hotels = @ + 1]

\* stats["total_snapshots"] += len(snapshots); stats["successful_hotels"] += 1
RecordSuccess(st, snaps) ==
    [st EXCEPT !.total_snapshots = @ + Len(snaps), !.successful_hotels = @ + 1]

\* a failure that is counted without an error entry
RecordFailure_NoEntry(st, hotel) ==
    [st EXCEPT !.failed_hotels = @ + 1]

\* stats["failed_hotels"] += 1; stats["errors"].append(f"{hotel['name']}: {e}")
RecordFailure(st, hotel) ==
    [st EXCEPT !.failed_hotels = @ + 1, !.errors = Append(@, hotel.name)]

\* a list that grows at its head
Extend_Prepend(all, snaps) == snaps \o all

\* all_snapshots.extend(snapshots)
Extend(all, snaps) == all \o snaps

\* a dispatch whose fallback is the parallel strategy
ModeOf_FallbackParallel(sel) ==
    IF sel = 2 THEN "SharedSession" ELSE IF sel = 1 THEN "Isolated" ELSE "BoundedParallel"

\* the strategy a selector runs, lines 493-503
ModeOf(sel) ==
    IF sel = 2 THEN "SharedSession" ELSE IF sel = 3 THEN "BoundedParallel" ELSE "Isolated"
Selectors == 1..4

\* the requests of the orchestration model
OrchRequests ==
    {[max_dates |-> None, date_offsets |-> Some(o)] : o \in {<<>>, <<1>>, <<2, 1>>}}
    \cup {[max_dates |-> Some(1), date_offsets |-> None]}

---------------------------------------------------------------------------
(* scrape_multiple_hotels *)

\* lines 486-503: build the window once, then run the strategy of the selector
O_CallWith(rq) ==
    /\ opc = "call"
    /\ dates' = BuildWindow(rq.max_dates, rq.date_offsets)
    /\ stats' = NewStats(hotels)
    /\ all_snapshots' = <<>>
    /\ i' = 1
    /\ IF ModeOf(strategy) = "BoundedParallel"
       THEN /\ opc' = "pool"
            /\ task' = [h \in 1..Len(hotels) |-> "queued"]
            /\ res' = [h \in 1..Len(hotels) |-> [ok |-> FALSE, snapshots |-> <<>>]]
       ELSE /\ opc' = IF ModeOf(strategy) = "SharedSession" THEN "acquire_shared"
                      ELSE IF Len(hotels) = 0 THEN "done" ELSE "acquire"
            /\ UNCHANGED <<task, res>>
    /\ UNCHANGED <<strategy, hotels, sess, page, tabs, pauses, collected,
                   procResult, navFailed, acqFailed>>
    /\ UNCHANGED <<hotelVars, runVars, fnVars>>

\* a call of scrape_multiple_hotels with one of the requests of the model
O_Call == \E rq \in OrchRequests : O_CallWith(rq)

(* _strategy_1_isolated *)

\* line 369, and lines 377-380 when it raises
S1_Acquire ==
    /\ ModeOf(strategy) = "Isolated" /\ opc = "acquire"
    /\ \E ok \in BOOLEAN :
          IF ok
          THEN /\ sess' = WithSession(i, OpenSession)
               /\ opc' = "scrape"
               /\ UNCHANGED <<stats, acqFailed>>
          ELSE /\ stats' = RecordFailure(stats, hotels[i])
               /\ acqFailed' = acqFailed \cup {i}
               /\ opc' = "pause"
               /\ UNCHANGED sess
    /\ UNCHANGED <<dates, strategy, hotels, i, all_snapshots, page, tabs, pauses,
                   task, res, collected, procResult, navFailed>>
    /\ UNCHANGED <<hotelVars, runVars, fnVars>>

\* lines 371-374
S1_Scrape ==
    /\ ModeOf(strategy) = "Isolated" /\ opc = "scrape"
    /\ \E script \in Scripts(dates) :
          LET r == scrape_hotel_with_page(hotels[i], dates, script)
          IN  /\ navFailed' = IF script.fail = "goto" /\ ~r.raised
                              THEN navFailed \cup {i} ELSE navFailed
              /\ IF r.raised
                 THEN /\ procResult' = "raised"
                      /\ UNCHANGED <<all_snapshots, stats>>
                 ELSE /\ procResult' = "ok"
                      /\ all_snapshots' = Extend(all_snapshots, r.snapshots)
                      /\ stats' = RecordSuccess(stats, r.snapshots)
    /\ opc' = "close"
    /\ UNCHANGED <<dates, strategy, hotels, i, sess, page, tabs, pauses,
                   task, res, collected, acqFailed>>
    /\ UNCHANGED <<hotelVars, runVars, fnVars>>

\* lines 375-380: the finally clause, then the except clause when the procedure raised
S1_Close ==
    /\ ModeOf(strategy) = "Isolated" /\ opc = "close"
    /\ \E outcome \in CloseOutcomes :
          sess' = WithSession(i, close_browser_full(sess[i], outcome))
    /\ stats' = IF procResult = "raised" THEN RecordFailure(stats, hotels[i]) ELSE stats
    /\ procResult' = "none"
    /\ opc' = "pause"
    /\ UNCHANGED <<dates, strategy, hotels, i, all_snapshots, page, tabs, pauses,
                   task, res, collected, navFailed, acqFailed>>
    /\ UNCHANGED <<hotelVars, runVars, fnVars>>

\* a loop that also pauses after the last hotel
NextHotel_PausesAfterLast(endpc, nextpc) ==
    /\ opc = "pause"
    /\ pauses' = pauses + 1
    /\ i' = i + 1
    /\ opc' = IF i < Len(hotels) THEN nextpc ELSE endpc
    /\ UNCHANGED <<dates, strategy, hotels, stats, all_snapshots, sess, page, tabs,
                   task, res, collected, procResult, navFailed, acqFailed>>
    /\ UNCHANGED <<hotelVars, runVars, fnVars>>

\* lines 381-384 (and 420-423), then the next iteration or the end of the loop
NextHotel(endpc, nextpc) ==
    /\ opc = "pause"
    /\ pauses' = IF i < Len(hotels) THEN pauses + 1 ELSE pauses
    /\ i' = i + 1
    /\ opc' = IF i < Len(hotels) THEN nextpc ELSE endpc
    /\ UNCHANGED <<dates, strategy, hotels, stats, all_snapshots, sess, page, tabs,
                   task, res, collected, procResult, navFailed, acqFailed>>
    /\ UNCHANGED <<hotelVars, runVars, fnVars>>

S1_Pause == ModeOf(strategy) = "Isolated" /\ NextHotel("done", "acquire")

(* _strategy_2_shared_browser *)

\* line 398, outside every try: an exception leaves the strategy
S2_AcquireShared ==
    /\ ModeOf(strategy) = "SharedSession" /\ opc = "acquire_shared"
    /\ \E ok \in BOOLEAN :
          IF ok
          THEN /\ sess' = WithSession(0, OpenSession)
               /\ page' = 1
               /\ tabs' = {1}
               /\ opc' = IF Len(hotels) = 0 THEN "close_shared" ELSE "tab"
               /\ UNCHANGED acqFailed
          ELSE /\ opc' = "raised"
               /\ acqFailed' = acqFailed \cup {0}
               /\ UNCHANGED <<sess, page, tabs>>
    /\ UNCHANGED <<dates, strategy, hotels, i, stats, all_snapshots, pauses,
                   task, res, collected, procResult, navFailed>>
    /\ UNCHANGED <<hotelVars, runVars, fnVars>>

\* lines 404-405, and lines 410-413 when context.new_page() raises
S2_Tab ==
    /\ ModeOf(strategy) = "SharedSession" /\ opc = "tab"
    /\ IF i > 1
       THEN \E ok \in BOOLEAN :
               IF ok
               THEN /\ page' = i
                    /\ tabs' = tabs \cup {i}
                    /\ opc' = "scrape"
                    /\ UNCHANGED <<stats, acqFailed>>
               ELSE /\ stats' = RecordFailure(stats, hotels[i])
                    /\ acqFailed' = acqFailed \cup {i}
                    /\ opc' = "close_tab"
                    /\ UNCHANGED <<page, tabs>>
       ELSE /\ opc' = "scrape"
            /\ UNCHANGED <<page, tabs, stats, acqFailed>>
    /\ UNCHANGED <<dates, strategy, hotels, i, all_snapshots, sess, pauses,
                   task, res, collected, procResult, navFailed>>
    /\ UNCHANGED <<hotelVars, runVars, fnVars>>

\* lines 406-413
S2_Scrape ==
    /\ ModeOf(strategy) = "SharedSession" /\ opc = "scrape"
    /\ \E script \in Scripts(dates) :
          LET r == scrape_hotel_with_page(hotels[i], dates, script)
          IN  /\ navFailed' = IF script.fail = "goto" /\ ~r.raised
                              THEN navFailed \cup {i} ELSE navFailed
              /\ IF r.raised
                 THEN /\ stats' = RecordFailure(stats, hotels[i])
                      /\ UNCHANGED all_snapshots
                 ELSE /\ all_snapshots' = Extend(all_snapshots, r.snapshots)
                      /\ stats' = RecordSuccess(stats, r.snapshots)
    /\ opc' = "close_tab"
    /\ UNCHANGED <<dates, strategy, hotels, i, sess, page, tabs, pauses,
                   task, res, collected, procResult, acqFailed>>
    /\ UNCHANGED <<hotelVars, runVars, fnVars>>

\* lines 414-419: page.close() of the tab page refers to, exceptions swallowed
S2_CloseTab ==
    /\ ModeOf(strategy) = "SharedSession" /\ opc = "close_tab"
    /\ IF i > 1
       THEN \E ok \in BOOLEAN : tabs' = IF ok THEN tabs \ {page} ELSE tabs
       ELSE UNCHANGED tabs
    /\ opc' = "pause"
    /\ UNCHANGED <<dates, strategy, hotels, i, stats, all_snapshots, sess, page, pauses,
                   task, res, collected, procResult, navFailed, acqFailed>>
    /\ UNCHANGED <<hotelVars, runVars, fnVars>>

S2_Pause == ModeOf(strategy) = "SharedSession" /\ NextHotel("close_shared", "tab")

\* lines 424-425; a closed browser has no open tab
S2_CloseShared ==
    /\ ModeOf(strategy) = "SharedSession" /\ opc = "close_shared"
    /\ \E outcome \in CloseOutcomes :
          LET s == close_browser_full(sess[0], outcome)
          IN  /\ sess' = WithSession(0, s)
              /\ tabs' = IF s = "closed" THEN {} ELSE tabs
    /\ opc' = "done"
    /\ UNCHANGED <<dates, strategy, hotels, i, stats, all_snapshots, page, pauses,
                   task, res, collected, procResult, navFailed, acqFailed>>
    /\ UNCHANGED <<hotelVars, runVars, fnVars>>

(* _strategy_3_parallel *)

Running == {h \in DOMAIN task : task[h] \in {"scrape", "close"}}

\* a worker of the pool takes the oldest queued task (lines 453-454) and
\* acquires its session, line 444, and lines 450-451 when that raises
T_Start(h) ==
    /\ opc = "pool" /\ task[h] = "queued"
    /\ \A k \in 1..(h - 1) : task[k] # "queued"
    /\ Cardinality(Running) < max_workers
    /\ \E ok \in BOOLEAN :
          IF ok
          THEN /\ sess' = WithSession(h, OpenSession)
               /\ task' = [task EXCEPT ![h] = "scrape"]
               /\ UNCHANGED <<res, acqFailed>>
          ELSE /\ res' = [res EXCEPT ![h] = [ok |-> FALSE, snapshots |-> <<>>]]
               /\ acqFailed' = acqFailed \cup {h}
               /\ task' = [task EXCEPT ![h] = "done"]
               /\ UNCHANGED sess
    /\ UNCHANGED <<dates, strategy, hotels, opc, i, stats, all_snapshots, page,
                   tabs, pauses, collected, procResult, navFailed>>
    /\ UNCHANGED <<hotelVars, runVars, fnVars>>

\* lines 446-447: the value scrape_one is about to return
T_Scrape(h) ==
    /\ opc = "pool" /\ task[h] = "scrape"
    /\ \E script \in Scripts(dates) :
          LET r == scrape_hotel_with_page(hotels[h], dates, script)
          IN  /\ navFailed' = IF script.fail = "goto" /\ ~r.raised
                              THEN navFailed \cup {h} ELSE navFailed
              /\ res' = [res EXCEPT ![h] = [ok |-> ~r.raised, snapshots |-> r.snapshots]]
    /\ task' = [task EXCEPT ![h] = "close"]
    /\ UNCHANGED <<dates, strategy, hotels, opc, i, stats, all_snapshots, sess, page,
                   tabs, pauses, collected, procResult, acqFailed>>
    /\ UNCHANGED <<hotelVars, runVars, fnVars>>

\* lines 448-451: the finally clause; the future then completes
T_Close(h) ==
    /\ opc = "pool" /\ task[h] = "close"
    /\ \E outcome \in CloseOutcomes :
          sess' = WithSession(h, close_browser_full(sess[h], outcome))
    /\ task' = [task EXCEPT ![h] = "done"]
    /\ UNCHANGED <<dates, strategy, hotels, opc, i, stats, all_snapshots, page,
                   tabs, pauses, res, collected, procResult, navFailed, acqFailed>>
    /\ UNCHANGED <<hotelVars, runVars, fnVars>>

\* lines 455-465: as_completed yields a completed future and the loop body consumes it
P_Collect(h) ==
    /\ opc = "pool" /\ task[h] = "done" /\ h \notin collected
    /\ IF res[h].ok
       THEN /\ all_snapshots' = Extend(all_snapshots, res[h].snapshots)
            /\ stats' = RecordSuccess(stats, res[h].snapshots)
       ELSE /\ stats' = RecordFailure(stats, hotels[h])
            /\ UNCHANGED all_snapshots
    /\ collected' = collected \cup {h}
    /\ UNCHANGED <<dates, strategy, hotels, opc, i, sess, page, tabs, pauses,
                   task, res, procResult, navFailed, acqFailed>>
    /\ UNCHANGED <<hotelVars, runVars, fnVars>>

\* line 470, once as_completed is exhausted and the pool is shut down
P_Return ==
    /\ opc = "pool" /\ collected = 1..Len(hotels)
    /\ opc' = "done"
    /\ UNCHANGED <<dates, strategy, hotels, i, stats, all_snapshots, sess, page, tabs,
                   pauses, task, res, collected, procResult, navFailed, acqFailed>>
    /\ UNCHANGED <<hotelVars, runVars, fnVars>>

---------------------------------------------------------------------------
(* run_price_scraping (src/src/scheduler/run_price_scraper.py) *)

Max(a, b) == IF a >= b THEN a ELSE b

\* python's s[:n]
SliceTo(s, n) ==
    IF n >= 0 THEN SubSeq(s, 1, Min(n, Len(s)))
    ELSE SubSeq(s, 1, Max(Len(s) + n, 0))

\* python's s[a:b] for 0 <= a <= b
Slice(s, a, b) == SubSeq(s, Min(a, Len(s)) + 1, Min(b, Len(s)))

\* lines 68-81: the session filter, then the limit (a limit of 0 is falsy)
hotels_to_scrape(all, session, limit) ==
    LET picked == IF session = Some(1) THEN SliceTo(all, SESSION_SIZE)
                  ELSE IF session = Some(2) THEN Slice(all, SESSION_SIZE, 2 * SESSION_SIZE)
                  ELSE all
    IN  IF limit # None /\ limit[1] # 0 THEN SliceTo(picked, limit[1]) ELSE picked

\* the dictionaries run_price_scraping returns
NoHotelsResult ==
    [success |-> FALSE, message |-> "Aucun hotel actif", stats |-> None, snapshots_count |-> None]
FatalResult ==
    [success |-> FALSE, message |-> "Erreur fatale", stats |-> None, snapshots_count |-> None]
DoneResult(st, snaps) ==
    [success |-> TRUE, message |-> "Scraping termine avec succes", stats |-> Some(st),
     snapshots_count |-> Some(Len(snaps))]
NoResult ==
    [success |-> FALSE, message |-> "", stats |-> None, snapshots_count |-> None]

\* the requests of the run model: --dates 2, --j-plus 2
RunRequests ==
    {[max_dates |-> Some(2), j_plus |-> None],
     [max_dates |-> None, j_plus |-> Some(2)]}

\* a call made to the store: the method, the status it writes ("" when it
\* writes none) and whether it returned (a call that raises changes nothing)
StoreCall(method, status, ok) == [call |-> method, status |-> status, ok |-> ok]

\* the outcomes of the store calls at the start of a run: every call returns,
\* create_scraper_log raises, get_monitored_hotels raises, or the
\* update_scraper_log of an empty store raises
StoreOutcomes == {"ok", "log_raises", "read_raises", "update_raises"}

\* the outcomes of the store calls at the end of a run
PersistOutcomes == {"ok", "batch_raises", "update_raises"}

\* lines 41-63: the log row is created outside the try block; the monitored
\* hotels are read inside it; an empty store ends the run
R_Start ==
    /\ rpc = "start"
    /\ \E outcome \in StoreOutcomes :
          LET created == <<StoreCall("create_scraper_log", "running", TRUE)>>
              read == <<StoreCall("get_monitored_hotels", "", TRUE)>>
          IN  /\ outcome = "update_raises" => all_hotels = <<>>
              /\ IF outcome = "log_raises"
                 THEN /\ rpc' = "raised"
                      /\ calls' = <<StoreCall("create_scraper_log", "running", FALSE)>>
                      /\ UNCHANGED <<result, log>>
                 ELSE IF outcome = "read_raises"
                 THEN /\ rpc' = "except"
                      /\ log' = "running"
                      /\ calls' = created \o <<StoreCall("get_monitored_hotels", "", FALSE)>>
                      /\ UNCHANGED result
                 ELSE IF all_hotels = <<>>
                 THEN IF outcome = "update_raises"
                      THEN /\ rpc' = "except"
                           /\ log' = "running"
                           /\ calls' = created \o read
                                       \o <<StoreCall("update_scraper_log", "success", FALSE)>>
                           /\ UNCHANGED result
                      ELSE /\ rpc' = "returned"
                           /\ log' = "success"
                           /\ calls' = created \o read
                                       \o <<StoreCall("update_scraper_log", "success", TRUE)>>
                           /\ result' = NoHotelsResult
                 ELSE /\ rpc' = "select"
                      /\ log' = "running"
                      /\ calls' = created \o read
                      /\ UNCHANGED result
    /\ UNCHANGED <<all_hotels, session_number, hotel_limit, max_dates_per_hotel, j_plus, saved>>
    /\ UNCHANGED <<dates, hotelVars, orchVars, fnVars>>

\* lines 67-90: the hotels of this run
R_Select ==
    /\ rpc = "select"
    /\ hotels' = hotels_to_scrape(all_hotels, session_number, hotel_limit)
    /\ opc' = "call"
    /\ rpc' = "scraping"
    /\ UNCHANGED <<strategy, i, stats, all_snapshots, sess, page, tabs, pauses, task, res,
                   collected, procResult, navFailed, acqFailed>>
    /\ UNCHANGED <<all_hotels, session_number, hotel_limit, max_dates_per_hotel, j_plus,
                   result, saved, log, calls>>
    /\ UNCHANGED <<dates, hotelVars, fnVars>>

\* lines 93-99: the call of scrape_multiple_hotels
R_Scrape ==
    /\ rpc = "scraping"
    /\ O_CallWith([max_dates |-> max_dates_per_hotel,
                   date_offsets |-> IF j_plus # None THEN Some(<<j_plus[1]>>) ELSE None])

\* a run that sends its list to the store whether it is empty or not
R_Persist_AlwaysSends ==
    /\ rpc = "scraping" /\ opc = "done"
    /\ \E outcome \in PersistOutcomes :
          LET batch(ok) == <<StoreCall("create_rate_snapshots_batch", "", ok)>>
          IN  IF outcome = "batch_raises"
              THEN /\ calls' = calls \o batch(FALSE)
                   /\ rpc' = "except"
                   /\ UNCHANGED <<saved, log, result>>
              ELSE /\ saved' = Append(saved, all_snapshots)
                   /\ IF outcome = "update_raises"
                      THEN /\ calls' = calls \o batch(TRUE)
                                       \o <<StoreCall("update_scraper_log", "success", FALSE)>>
                           /\ rpc' = "except"
                           /\ UNCHANGED <<log, result>>
                      ELSE /\ calls' = calls \o batch(TRUE)
                                       \o <<StoreCall("update_scraper_log", "success", TRUE)>>
                           /\ log' = "success"
                           /\ result' = DoneResult(stats, all_snapshots)
                           /\ rpc' = "returned"
    /\ UNCHANGED <<all_hotels, session_number, hotel_limit, max_dates_per_hotel, j_plus>>
    /\ UNCHANGED <<dates, hotelVars, orchVars, fnVars>>

\* lines 101-132: a non-empty list goes to the store as one batch, the log row
\* is set to "success", then the run returns its statistics; an exception of
\* either call is caught at line 134
R_Persist ==
    /\ rpc = "scraping" /\ opc = "done"
    /\ \E outcome \in PersistOutcomes :
          LET batch(ok) == IF all_snapshots # <<>>
                           THEN <<StoreCall("create_rate_snapshots_batch", "", ok)>>
                           ELSE <<>>
          IN  /\ outcome = "batch_raises" => all_snapshots # <<>>
              /\ IF outcome = "batch_raises"
                 THEN /\ calls' = calls \o batch(FALSE)
                      /\ rpc' = "except"
                      /\ UNCHANGED <<saved, log, result>>
                 ELSE /\ saved' = IF all_snapshots # <<>> THEN Append(saved, all_snapshots)
                                  ELSE saved
                      /\ IF outcome = "update_raises"
                         THEN /\ calls' = calls \o batch(TRUE)
                                          \o <<StoreCall("update_scraper_log", "success", FALSE)>>
                              /\ rpc' = "except"
                              /\ UNCHANGED <<log, result>>
                         ELSE /\ calls' = calls \o batch(TRUE)
                                          \o <<StoreCall("update_scraper_log", "success", TRUE)>>
                              /\ log' = "success"
                              /\ result' = DoneResult(stats, all_snapshots)
                              /\ rpc' = "returned"
    /\ UNCHANGED <<all_hotels, session_number, hotel_limit, max_dates_per_hotel, j_plus>>
    /\ UNCHANGED <<dates, hotelVars, orchVars, fnVars>>

\* line 134: scrape_multiple_hotels raised
R_Fatal ==
    /\ rpc = "scraping" /\ opc = "raised"
    /\ rpc' = "except"
    /\ UNCHANGED <<all_hotels, session_number, hotel_limit, max_dates_per_hotel, j_plus,
                   result, saved, log, calls>>
    /\ UNCHANGED <<dates, hotelVars, orchVars, fnVars>>

\* a handler that returns without touching the log row
R_Except_NoUpdate ==
    /\ rpc = "except"
    /\ result' = FatalResult
    /\ rpc' = "returned"
    /\ UNCHANGED <<all_hotels, session_number, hotel_limit, max_dates_per_hotel, j_plus,
                   saved, log, calls>>
    /\ UNCHANGED <<dates, hotelVars, orchVars, fnVars>>

\* lines 134-148: the handler sets the log row to "error" and returns; the
\* update is not guarded, so its exception leaves run_price_scraping
R_Except ==
    /\ rpc = "except"
    /\ \E ok \in BOOLEAN :
          /\ calls' = Append(calls, StoreCall("update_scraper_log", "error", ok))
          /\ IF ok
             THEN /\ log' = "error"
                  /\ result' = FatalResult
                  /\ rpc' = "returned"
             ELSE /\ rpc' = "raised"
                  /\ UNCHANGED <<log, result>>
    /\ UNCHANGED <<all_hotels, session_number, hotel_limit, max_dates_per_hotel, j_plus, saved>>
    /\ UNCHANGED <<dates, hotelVars, orchVars, fnVars>>

RunIdle ==
    /\ rpc = "idle"
    /\ all_hotels = <<>>
    /\ session_number = None
    /\ hotel_limit = None
    /\ max_dates_per_hotel = None
    /\ j_plus = None
    /\ result = NoResult
    /\ saved = <<>>
    /\ log = "none"
    /\ calls = <<>>

---------------------------------------------------------------------------
(* The calendar locator on a structured payload *)

\* a JSON value: a mapping ("dict", its fields in iteration order), a sequence
\* ("list") or a scalar ("leaf"); key is the name of the field that holds the
\* value ("" for the root and for the items of a sequence), val the scalar
Leaf(k, v) == [key |-> k, kind |-> "leaf", items |-> <<>>, val |-> v]
Dict(k, fields) == [key |-> k, kind |-> "dict", items |-> fields, val |-> 0]
List(k, items) == [key |-> k, kind |-> "list", items |-> items, val |-> 0]

\* "k in obj" and obj.get(k) of a mapping
HasKey(obj, k) == \E p \in 1..Len(obj.items) : obj.items[p].key = k
Get(obj, k) ==
    IF HasKey(obj, k)
    THEN Some(obj.items[CHOOSE p \in 1..Len(obj.items) : obj.items[p].key = k])
    ELSE None

\* lines 90-97, on the value of obj.get("days")
_is_calendar_days_list(days) ==
    /\ days # None
    /\ days[1].kind = "list"
    /\ Len(days[1].items) > 0
    /\ days[1].items[1].kind = "dict"
    /\ HasKey(days[1].items[1], "checkin")

RECURSIVE _find_calendar_days(_), FirstFound(_)

\* lines 106-109 and 111-114: the first result that is truthy
FirstFound(items) ==
    IF items = <<>> THEN None
    ELSE LET found == _find_calendar_days(Head(items))
         IN  IF found # None THEN found ELSE FirstFound(Tail(items))

\* lines 100-115
_find_calendar_days(obj) ==
    IF obj.kind = "dict"
    THEN LET days == Get(obj, "days")
         IN  IF _is_calendar_days_list(days) THEN days ELSE FirstFound(obj.items)
    ELSE IF obj.kind = "list" THEN FirstFound(obj.items)
    ELSE None

\* the payloads of the model: the entries of a 'days' sequence carry a
\* check-in date, a formatted price, both or neither, or are no mapping
DayEntries ==
    {Dict("", <<Leaf("checkin", 1), Leaf("avgPriceFormatted", 152)>>),
     Dict("", <<Leaf("checkin", 2), Leaf("avgPriceFormatted", 99)>>),
     Dict("", <<Leaf("checkin", 1)>>),
     Dict("", <<Leaf("avgPriceFormatted", 152)>>),
     Leaf("", 7)}
DaysValues ==
    {List("days", e) : e \in SeqsUpTo(DayEntries, MaxEntries)} \cup {Leaf("days", 0)}
\* a second 'days' field of the payload: well formed, without prices, no sequence
OtherDays ==
    {List("days", <<Dict("", <<Leaf("checkin", 3), Leaf("avgPriceFormatted", 120)>>)>>),
     List("days", <<Dict("", <<Leaf("checkin", 3)>>)>>),
     Leaf("days", 0)}
Payloads ==
    {Leaf("", 0), Dict("", <<Leaf("status", 0)>>)}
    \cup {Dict("", <<a>>) : a \in DaysValues}
    \cup {Dict("", <<Dict("data", <<a>>), b>>) : a \in DaysValues, b \in OtherDays}
    \cup {Dict("", <<a, Dict("data", <<b>>)>>) : a \in DaysValues, b \in OtherDays}
    \cup {List("", <<Dict("", <<a>>), Dict("", <<b>>)>>) : a \in DaysValues, b \in OtherDays}
    \cup {List("", <<Dict("", <<b>>), Dict("", <<a>>)>>) : a \in DaysValues, b \in OtherDays}

F_find_calendar_days ==
    /\ fn = "call" /\ arg.f = "_find_calendar_days"
    /\ arg' = arg.x
    /\ ret' = _find_calendar_days(arg.x)
    /\ fn' = "_find_calendar_days"
    /\ UNCHANGED <<dates, hotelVars, orchVars, runVars>>

---------------------------------------------------------------------------
(* Calls of the module's functions on arguments of their own *)

\* the caps and the offset lists a caller may pass: negative, zero, positive,
\* and caps beyond the horizon
CapArgs == {None} \cup {Some(c) : c \in (0 - 1)..(HORIZON + MaxOffsets)}
OffsetArgs == SeqsUpTo((0 - 1)..MaxOffset, MaxOffsets)

F_get_next_30_days ==
    /\ fn = "call" /\ arg.f = "get_next_30_days"
    /\ arg' = arg.x
    /\ ret' = get_next_30_days(arg.x)
    /\ fn' = "get_next_30_days"
    /\ UNCHANGED <<dates, hotelVars, orchVars, runVars>>

F_get_dates_from_offsets ==
    /\ fn = "call" /\ arg.f = "get_dates_from_offsets"
    /\ arg' = arg.x
    /\ ret' = get_dates_from_offsets(arg.x)
    /\ fn' = "get_dates_from_offsets"
    /\ UNCHANGED <<dates, hotelVars, orchVars, runVars>>

FnIdle ==
    /\ fn = "none"
    /\ arg = <<>>
    /\ ret = <<>>

---------------------------------------------------------------------------
(* Specifications *)

OrchFresh ==
    /\ i = 1
    /\ stats = NewStats(<<>>)
    /\ all_snapshots = <<>>
    /\ sess = [x \in {} |-> OpenSession]
    /\ page = 0
    /\ tabs = {}
    /\ pauses = 0
    /\ task = <<>>
    /\ res = <<>>
    /\ collected = {}
    /\ procResult = "none"
    /\ navFailed = {}
    /\ acqFailed = {}

OrchIdle == opc = "call" /\ OrchFresh

\* one call of scrape_multiple_hotels on a list of 0..MaxHotels hotels
Init ==
    /\ strategy \in Selectors
    /\ \E n \in 0..MaxHotels : hotels = [k \in 1..n |-> HotelOf(k)]
    /\ dates = <<>>
    /\ OrchIdle
    /\ HotelIdle
    /\ RunIdle
    /\ FnIdle

Next ==
    \/ O_Call
    \/ S1_Acquire
    \/ S1_Scrape
    \/ S1_Close
    \/ S1_Pause
    \/ S2_AcquireShared
    \/ S2_Tab
    \/ S2_Scrape
    \/ S2_CloseTab
    \/ S2_Pause
    \/ S2_CloseShared
    \/ \E h \in 1..Len(hotels) : T_Start(h)
    \/ \E h \in 1..Len(hotels) : T_Scrape(h)
    \/ \E h \in 1..Len(hotels) : T_Close(h)
    \/ \E h \in 1..Len(hotels) : P_Collect(h)
    \/ P_Return

Spec == Init /\ [][Next]_vars

\* one call of scrape_hotel_with_page on one window
InitHotel ==
    /\ dates \in Windows
    /\ strategy = 1
    /\ hotels = <<HotelOf(1)>>
    /\ OrchIdle
    /\ HotelIdle
    /\ RunIdle
    /\ FnIdle

NextHotelProc ==
    \/ H_Enter
    \/ H_Goto
    \/ H_Cookies
    \/ H_Scroll
    \/ H_Locate
    \/ H_Click
    \/ H_WaitCalendar
    \/ H_Attempt
    \/ H_Assemble

SpecHotel == InitHotel /\ [][NextHotelProc]_vars

\* one call of run_price_scraping
InitRun ==
    /\ strategy \in Selectors
    /\ \E n \in 0..MaxHotels : all_hotels = [k \in 1..n |-> HotelOf(k)]
    /\ session_number \in {None, Some(1), Some(2)}
    /\ hotel_limit \in {None, Some(1)}
    /\ \E rq \in RunRequests :
          /\ max_dates_per_hotel = rq.max_dates
          /\ j_plus = rq.j_plus
    /\ rpc = "start"
    /\ result = NoResult
    /\ saved = <<>>
    /\ log = "none"
    /\ calls = <<>>
    /\ hotels = <<>>
    /\ dates = <<>>
    /\ opc = "idle"
    /\ OrchFresh
    /\ HotelIdle
    /\ FnIdle

NextRun ==
    \/ R_Start
    \/ R_Select
    \/ R_Scrape
    \/ R_Persist
    \/ R_Fatal
    \/ R_Except
    \/ S1_Acquire
    \/ S1_Scrape
    \/ S1_Close
    \/ S1_Pause
    \/ S2_AcquireShared
    \/ S2_Tab
    \/ S2_Scrape
    \/ S2_CloseTab
    \/ S2_Pause
    \/ S2_CloseShared
    \/ \E h \in 1..Len(hotels) : T_Start(h)
    \/ \E h \in 1..Len(hotels) : T_Scrape(h)
    \/ \E h \in 1..Len(hotels) : T_Close(h)
    \/ \E h \in 1..Len(hotels) : P_Collect(h)
    \/ P_Return

SpecRun == InitRun /\ [][NextRun]_vars

\* one call of a function of price_scraper.py: fn is "call" until the
\* function named by arg.f has been applied to arg.x
InitFn ==
    /\ strategy = 1
    /\ hotels = <<>>
    /\ dates = <<>>
    /\ OrchIdle
    /\ HotelIdle
    /\ RunIdle
    /\ fn = "call"
    /\ ret = <<>>
    /\ \/ \E x \in CapArgs : arg = [f |-> "get_next_30_days", x |-> x]
       \/ \E x \in OffsetArgs : arg = [f |-> "get_dates_from_offsets", x |-> x]
       \/ \E x \in PriceTexts : arg = [f |-> "_parse_avg_price", x |-> x]
       \/ \E cal \in StartCals, days \in DayLists :
             arg = [f |-> "_merge_days_into", x |-> [calendar_days |-> cal, days |-> days]]
       \/ \E x \in CellLists : arg = [f |-> "_extract_calendar_from_dom", x |-> x]
       \/ \E x \in Payloads : arg = [f |-> "_find_calendar_days", x |-> x]
       \/ \E x \in Documents : arg = [f |-> "page.evaluate", x |-> x]

NextFn ==
    \/ F_get_next_30_days
    \/ F_get_dates_from_offsets
    \/ F_parse_avg_price
    \/ F_merge_days_into
    \/ F_extract_calendar_from_dom
    \/ F_find_calendar_days
    \/ F_evaluate

SpecFn == InitFn /\ [][NextFn]_vars

---------------------------------------------------------------------------
(* Claims *)

N == Len(hotels)
Mode == ModeOf(strategy)
IndexOf(id) == CHOOSE k \in 1..N : hotels[k].id = id
OrdinalOf(str) == CHOOSE d \in 0..89 : strftime(d) = str
SnapshotsOfHotel(k) == SelectSeq(all_snapshots, LAMBDA x : x.hotelId = hotels[k].id)
WindowDates == {dates[k] : k \in 1..Len(dates)}

\* C1: the list scrape_hotel_with_page returns holds exactly one snapshot per
\* date of the window it was handed: none missing, none twice, none foreign.
C1_OneSnapshotPerDate ==
    hpc = "returned" =>
        /\ \A d \in WindowDates :
              Cardinality({p \in 1..Len(snapshots) : snapshots[p].dateCheckin = strftime(d)}) = 1
        /\ \A p \in 1..Len(snapshots) :
              \E d \in WindowDates : snapshots[p].dateCheckin = strftime(d)

\* C2: in a run over 3 hotels where navigation fails for exactly one and the
\* other two proceed normally, the other two hotels' windows are returned in
\* full and RunStats has failed_hotels = 1, successful_hotels = 2 and one
\* error entry, naming the hotel whose navigation failed.
C2_NavigationFailureRecorded ==
    (opc = "done" /\ N = 3 /\ Len(dates) > 0 /\ acqFailed = {} /\ Cardinality(navFailed) = 1) =>
        /\ \A k \in (1..N) \ navFailed :
              \A d \in WindowDates :
                 \E p \in 1..Len(all_snapshots) :
                    /\ all_snapshots[p].hotelId = hotels[k].id
                    /\ all_snapshots[p].dateCheckin = strftime(d)
        /\ stats.failed_hotels = 1
        /\ stats.successful_hotels = 2
        /\ Len(stats.errors) = 1
        /\ \A k \in navFailed : stats.errors = <<hotels[k].name>>

\* the hotels whose session (or tab) acquisition or whose processing raised
RaisedHotels == IF Len(dates) = 0 THEN 1..N ELSE acqFailed \cap (1..N)

\* C3: under each strategy an error raised while acquiring the session for a
\* hotel, or while processing it, adds one to failed_hotels and one error entry
\* for that hotel, every other hotel is processed, and the orchestrator
\* returns (stats, snapshots) instead of raising.
C3_HotelErrorIsolated ==
    /\ opc # "raised"
    /\ opc = "done" =>
          /\ stats.failed_hotels = Cardinality(RaisedHotels)
          /\ Len(stats.errors) = Cardinality(RaisedHotels)
          /\ \A k \in RaisedHotels :
                Cardinality({p \in 1..Len(stats.errors) : stats.errors[p] = hotels[k].name}) = 1
          /\ stats.successful_hotels = N - Cardinality(RaisedHotels)

\* C4: once a date holds an available observation with a price in the merged
\* map of a hotel, no later merge makes it unavailable.
C4_AvailableNeverDowngraded ==
    [][\A d \in DOMAIN calendar_days :
          calendar_days[d].available =>
             /\ d \in DOMAIN calendar_days'
             /\ calendar_days'[d].available
             /\ calendar_days'[d].price # NoPrice]_vars

\* C5: an exception at a step after navigation does not leave
\* scrape_hotel_with_page: the assembly still runs, and the returned snapshots
\* carry every observation merged before it (a full window of absent prices,
\* available = FALSE, when nothing was merged).
C5_ExceptionStillAssembles ==
    excAt \in {"scroll", "locate", "click", "extract"} =>
        /\ hpc \in {"assemble", "returned"}
        /\ hpc = "returned" =>
              /\ Len(snapshots) = Len(dates)
              /\ \A d \in WindowDates :
                    \E p \in 1..Len(snapshots) : snapshots[p].dateCheckin = strftime(d)
              /\ \A p \in 1..Len(snapshots) :
                    LET c == snapshots[p].dateCheckin
                    IN  IF c \in DOMAIN lastSeen
                        THEN /\ snapshots[p].price = lastSeen[c].price
                             /\ snapshots[p].available = lastSeen[c].available
                        ELSE /\ snapshots[p].price = NoPrice
                             /\ snapshots[p].available = FALSE

C5_Witness ==
    /\ hpc = "returned" /\ excAt = "extract"
    /\ \E p \in 1..Len(snapshots) : snapshots[p].available /\ snapshots[p].price = 120
    /\ \E p \in 1..Len(snapshots) : ~snapshots[p].available

\* C6: under Isolated and SharedSession the flat list is the concatenation of
\* the successful hotels' lists in input order: every snapshot of a hotel
\* precedes every snapshot of a hotel that comes later in the input.
C6_InputOrderKept ==
    Mode \in {"Isolated", "SharedSession"} =>
        /\ \A p, q \in 1..Len(all_snapshots) :
              p < q => IndexOf(all_snapshots[p].hotelId) <= IndexOf(all_snapshots[q].hotelId)
        /\ opc = "done" =>
              \A k \in 1..N :
                 Len(SnapshotsOfHotel(k)) = IF k \in RaisedHotels THEN 0 ELSE Len(dates)

C6_Witness ==
    /\ Mode = "SharedSession" /\ opc = "done" /\ N = 3 /\ Len(dates) = 2
    /\ acqFailed = {2}
    /\ Len(all_snapshots) = 4

\* C7: under BoundedParallel, whatever the order in which the workers
\* complete, the snapshots of a hotel are one contiguous block of the flat
\* list, in ascending date order inside the block.
C7_ParallelBlocks ==
    Mode = "BoundedParallel" =>
        /\ \A p, q, r \in 1..Len(all_snapshots) :
              (p < q /\ q < r /\ all_snapshots[p].hotelId = all_snapshots[r].hotelId)
                 => all_snapshots[q].hotelId = all_snapshots[p].hotelId
        /\ \A p \in 1..(Len(all_snapshots) - 1) :
              all_snapshots[p].hotelId = all_snapshots[p + 1].hotelId
                 => OrdinalOf(all_snapshots[p].dateCheckin)
                       <= OrdinalOf(all_snapshots[p + 1].dateCheckin)

C7_Witness ==
    /\ Mode = "BoundedParallel" /\ opc = "done" /\ N = 3 /\ Len(dates) = 2
    /\ Len(all_snapshots) = 6
    /\ all_snapshots[1].hotelId = hotels[2].id
    /\ all_snapshots[3].hotelId = hotels[3].id
    /\ all_snapshots[5].hotelId = hotels[1].id

\* C8: under Isolated at most one session is open at any time: the session of
\* a hotel is released before the session of the next hotel is acquired.
C8_OneSessionAtATime ==
    Mode = "Isolated" => Cardinality(OpenSessions) <= 1

\* C9: under BoundedParallel at most max_workers procedures run and at most
\* max_workers sessions are open, each task on a session of its own.
C9_AtMostWidthSessions ==
    Mode = "BoundedParallel" =>
        /\ Cardinality(Running) <= max_workers
        /\ Cardinality(OpenSessions) <= max_workers
        /\ \A h \in Running : h \in DOMAIN sess

Sum(f, S) ==
    LET RECURSIVE Acc(_)
        Acc(T) == IF T = {} THEN 0 ELSE LET x == CHOOSE y \in T : TRUE IN f[x] + Acc(T \ {x})
    IN  Acc(S)

\* C10: under BoundedParallel the statistics and the flat list move together,
\* one completed task at a time: between two completions successful_hotels +
\* failed_hotels is the number of tasks collected, the error entries number
\* failed_hotels, total_snapshots is the length of the flat list, and no
\* update of a collected task is lost or counted twice.
C10_StatsMoveWithCollection ==
    (Mode = "BoundedParallel" /\ opc \in {"pool", "done"}) =>
        /\ stats.successful_hotels + stats.failed_hotels = Cardinality(collected)
        /\ Len(stats.errors) = stats.failed_hotels
        /\ stats.total_snapshots = Len(all_snapshots)
        /\ stats.successful_hotels = Cardinality({h \in collected : res[h].ok})
        /\ stats.total_snapshots =
              Sum([h \in collected |-> IF res[h].ok THEN Len(res[h].snapshots) ELSE 0], collected)

C10_Witness ==
    /\ Mode = "BoundedParallel" /\ opc = "pool" /\ N = 3
    /\ Cardinality(collected) = 2
    /\ stats.successful_hotels = 1 /\ stats.failed_hotels = 1
    /\ stats.total_snapshots = 2
    /\ \E h \in 1..N : task[h] = "scrape"

\* the hotels a run is to process, none when the store is empty
HotelsOfRun == hotels_to_scrape(all_hotels, session_number, hotel_limit)

\* C11: when the list of hotels to process is empty (no monitored hotel, or
\* the session/limit filter selects none) no session is ever acquired, nothing
\* is sent to persistence, and the run is returned to the caller as
\* unsuccessful with zero snapshots.
C11_EmptyRunUnsuccessful ==
    (rpc # "idle" /\ HotelsOfRun = <<>>) =>
        /\ DOMAIN sess = {}
        /\ saved = <<>>
        /\ rpc = "returned" =>
              /\ ~result.success
              /\ result.snapshots_count \in {None, Some(0)}

StrictlyAscending(s) == \A k \in 1..(Len(s) - 1) : s[k] < s[k + 1]

\* the cap a call of get_next_30_days requests, 30 by default
RequestedCap == IF fn = "get_next_30_days" /\ arg # None /\ arg[1] > 0 THEN arg[1] ELSE HORIZON

\* C12: every window built by get_next_30_days, for any cap, and by
\* get_dates_from_offsets, for any list of integer offsets, is strictly
\* ascending, no longer than the requested cap (30 by default), and starts
\* strictly after today.
C12_WindowWellFormed ==
    fn \in {"get_next_30_days", "get_dates_from_offsets"} =>
        /\ StrictlyAscending(ret)
        /\ Len(ret) <= RequestedCap
        /\ ret # <<>> => ret[1] > Today

\* C13: get_next_30_days(max_dates) is exactly today+1 .. today+min(30,
\* max_dates) for a positive max_dates and exactly today+1 .. today+30 when
\* max_dates is absent, zero or negative; today is never in the result.
C13_DefaultWindowExact ==
    fn = "get_next_30_days" =>
        /\ ret = [k \in 1..(IF arg # None /\ arg[1] > 0 THEN Min(30, arg[1]) ELSE 30) |->
                     Today + k]
        /\ \A k \in 1..Len(ret) : ret[k] # Today

C13_Witness ==
    /\ fn = "get_next_30_days"
    /\ arg # None /\ arg[1] > HORIZON
    /\ Len(ret) = 30 /\ ret[1] = Today + 1 /\ ret[30] = Today + 30

\* an amount the price band [10, 10000) admits, or no amount
InBand(price) == price = NoPrice \/ (price >= MIN_PRICE /\ price < MAX_PRICE)

\* C14: every price carried by a merged observation or by a returned
\* snapshot is absent or an amount in [10, 10000).
C14_PricesInBand ==
    /\ \A d \in DOMAIN calendar_days : InBand(calendar_days[d].price)
    /\ \A p \in 1..Len(snapshots) : InBand(snapshots[p].price)

\* C15: under SharedSession exactly one session is acquired and exactly one
\* released per run, every hotel after the first is processed in a tab opened
\* for it, that tab is closed before the next hotel's tab is opened, and at
\* most one tab of the session is open at any moment. (Released: handed to
\* close_browser_full.)
C15_OneSessionOneTab ==
    Mode = "SharedSession" =>
        /\ DOMAIN sess \subseteq {0}
        /\ opc = "done" =>
              /\ DOMAIN sess = {0}
              /\ sess[0] # "open"
        /\ (opc = "scrape" /\ i > 1) => (page = i /\ i \in tabs)
        /\ (opc = "tab" /\ i > 1) => tabs \cap (2..N) = {}
        /\ Cardinality(tabs) <= 1

\* the merged map holds at least min(3, windowSize) observations
ThresholdReached == Cardinality(DOMAIN calendar_days) >= Min(3, Len(dates))

\* the retried extraction is over: the visibility wait was passed and the
\* procedure has gone on to the assembly
ExtractionOver == hpc \in {"assemble", "returned"} /\ excAt \notin {"goto", "scroll", "locate", "click"}

IsPrefix(s, t) == Len(s) <= Len(t) /\ s = SubSeq(t, 1, Len(s))

\* C16 as stated: the rendered-grid search runs at least once and at most 3
\* times, each attempt after a backoff of 1.5 s, 2.5 s, 3.5 s; no attempt is
\* made once the merged map holds min(3, windowSize) observations; and the
\* loop ends before the third attempt only when that threshold is reached.
C16_RetryLoop_AsStated ==
    /\ IsPrefix(slept, <<15, 25, 35>>)
    /\ hpc = "extract" => ~ThresholdReached
    /\ ExtractionOver =>
          /\ Len(slept) >= 1
          /\ Len(slept) < 3 => ThresholdReached

\* C16, amended: as above, except that the loop also ends before the third
\* attempt when an attempt raises, the exception being caught by the
\* procedure; the first attempt is made whatever the visibility wait did.
C16_RetryLoop ==
    /\ IsPrefix(slept, <<15, 25, 35>>)
    /\ hpc = "extract" => ~ThresholdReached
    /\ (hpc = "extract" /\ attempt = 0) => (slept = <<>> /\ steps[Len(steps)] = "wait")
    /\ ExtractionOver =>
          /\ Len(slept) >= 1
          /\ Len(slept) < 3 => (ThresholdReached \/ excAt = "extract")

C16_Witness ==
    /\ hpc = "returned" /\ excAt = "none"
    /\ slept = <<15, 25>>
    /\ Len(dates) = 2 /\ Cardinality(DOMAIN calendar_days) = 2

\* the steps of the procedure in their fixed order: Navigate, Consent, Reveal
\* calendar (scroll, locate, activate, then the soft wait), Retried
\* extraction, Assemble
StepOrder ==
    <<"navigate", "consent", "scroll", "locate", "activate", "wait", "extract", "assemble">>
Rank(st) == CHOOSE k \in 1..Len(StepOrder) : StepOrder[k] = st

\* C17: the procedure executes its steps in the fixed order Navigate, Consent,
\* Reveal calendar, Retried extraction, Assemble, none skipped but by an
\* exception, which leads to Assemble; when navigation fails, or the
\* date-selection control never becomes visible, no later step before
\* Assemble is executed and Assemble emits the whole window as price absent,
\* available = FALSE.
C17_FixedStepOrder ==
    /\ steps # <<>> => steps[1] = "navigate"
    /\ \A k \in 1..(Len(steps) - 1) :
          \/ Rank(steps[k + 1]) = Rank(steps[k]) + 1
          \/ steps[k] = "extract" /\ steps[k + 1] = "extract"
          \/ steps[k] # "assemble" /\ steps[k + 1] = "assemble" /\ excAt # "none"
    /\ hpc = "returned" => steps[Len(steps)] = "assemble"
    /\ excAt = "goto" => IsPrefix(steps, <<"navigate", "assemble">>)
    /\ excAt = "locate" =>
          IsPrefix(steps, <<"navigate", "consent", "scroll", "locate", "assemble">>)
    /\ (excAt \in {"goto", "locate"} /\ hpc = "returned") =>
          /\ Len(snapshots) = Len(dates)
          /\ \A p \in 1..Len(snapshots) :
                snapshots[p].price = NoPrice /\ ~snapshots[p].available

C17_Witness ==
    /\ hpc = "returned" /\ excAt = "locate"
    /\ steps = <<"navigate", "consent", "scroll", "locate", "assemble">>
    /\ Len(snapshots) = 2

\* C18: under Isolated and SharedSession one pacing delay is slept between
\* every two consecutive hotels of the input list, whatever the outcome of the
\* first of the two: i - 1 delays when hotel i starts, n - 1 for a run over n
\* hotels, none after the last; under BoundedParallel none is ever slept.
C18_PacingBetweenHotels ==
    /\ Mode = "BoundedParallel" => pauses = 0
    /\ Mode \in {"Isolated", "SharedSession"} =>
          /\ opc \in {"acquire", "tab", "scrape", "close", "close_tab", "pause"} => pauses = i - 1
          /\ opc \in {"close_shared", "done"} => pauses = IF N = 0 THEN 0 ELSE N - 1

C18_Witness ==
    /\ Mode = "Isolated" /\ opc = "done" /\ N = 3
    /\ acqFailed = {2}
    /\ pauses = 2

\* a cell that is not disabled and shows an amount of 10 or more
CellAvailable(cell) == ~cell.disabled /\ cell.price # NoPrice /\ cell.price >= 10
CellsOfDate(cells, d) == {k \in 1..Len(cells) : cells[k].checkin = d}

\* C19: within one rendered-grid scan the entry of a date is available, with
\* a price, exactly when at least one of the cells of that date is available,
\* whatever the order of the cells; an unavailable cell never replaces the
\* entry an earlier cell left for its date, and an available cell always does.
C19_ScanKeepsAvailable ==
    fn = "_extract_calendar_from_dom" =>
        /\ \A d \in CellDates :
              /\ d \in DOMAIN ret <=> CellsOfDate(arg, d) # {}
              /\ d \in DOMAIN ret =>
                    /\ ret[d].available <=> \E k \in CellsOfDate(arg, d) : CellAvailable(arg[k])
                    /\ ret[d].available <=> ret[d].price # NoPrice
        /\ \A k \in 1..Len(arg) :
              LET before == _extract_calendar_from_dom(SubSeq(arg, 1, k - 1))
                  after == _extract_calendar_from_dom(SubSeq(arg, 1, k))
                  d == arg[k].checkin
              IN  (d # NoDate /\ d \in DOMAIN before) =>
                     IF CellAvailable(arg[k])
                     THEN after[d] = [price |-> arg[k].price, available |-> TRUE]
                     ELSE after[d] = before[d]

C19_Witness ==
    /\ fn = "_extract_calendar_from_dom"
    /\ Len(arg) = 2
    /\ arg[1].checkin = arg[2].checkin /\ arg[1].checkin # NoDate
    /\ CellAvailable(arg[1]) /\ arg[2].disabled
    /\ ret[arg[1].checkin] = [price |-> 120, available |-> TRUE]

\* C20: in _merge_days_into every entry reported available whose formatted
\* price fails normalization (absent, empty, unparsable, out of the band, or a
\* literal zero) is stored with available = FALSE: the map never holds an
\* observation that is available and has no price.
C20_NoAvailableWithoutPrice ==
    fn = "_merge_days_into" =>
        \A d \in DOMAIN ret : ~(ret[d].available /\ ret[d].price = NoPrice)

\* a call of the single-hotel procedure is about to be made on the window
ProcedureCalled == opc = "scrape" \/ \E h \in DOMAIN task : task[h] = "scrape"

\* C21: for every request scrape_multiple_hotels accepts (any cap, any list of
\* day offsets, the empty list included) the window handed to the single-hotel
\* procedure is non-empty, so that its first and last date can be computed:
\* the procedure never raises on them.
C21_WindowNonEmpty ==
    /\ ProcedureCalled => dates # <<>>
    /\ procResult # "raised"
    /\ \A h \in DOMAIN task : task[h] \in {"close", "done"} => (h \in acqFailed \/ res[h].ok)

RECURSIVE DaysInOrder(_), DaysOfAll(_)

\* the 'days' fields of a payload in depth-first order: a node's own field
\* before those of its children, the children in iteration order
DaysInOrder(obj) ==
    IF obj.kind = "leaf" THEN <<>>
    ELSE (IF obj.kind = "dict" /\ HasKey(obj, "days") THEN Get(obj, "days") ELSE <<>>)
         \o DaysOfAll(obj.items)
DaysOfAll(items) ==
    IF items = <<>> THEN <<>> ELSE DaysInOrder(Head(items)) \o DaysOfAll(Tail(items))

\* a non-empty sequence whose entries each contain a check-in date field and
\* a formatted-price field
IsCalendar(days) ==
    /\ days.kind = "list"
    /\ Len(days.items) > 0
    /\ \A p \in 1..Len(days.items) :
          /\ days.items[p].kind = "dict"
          /\ HasKey(days.items[p], "checkin")
          /\ HasKey(days.items[p], "avgPriceFormatted")

FirstOf(s, Test(_)) ==
    LET S == {p \in 1..Len(s) : Test(s[p])}
    IN  IF S = {} THEN None ELSE Some(s[CHOOSE p \in S : \A q \in S : p <= q])

\* C22: _find_calendar_days returns the first sequence met in depth-first
\* order whose entries each contain a check-in date field and a
\* formatted-price field, and absent when the payload has none; a sequence with
\* an entry lacking one of the two fields is never returned.
C22_FirstCalendarDepthFirst ==
    fn = "_find_calendar_days" =>
        /\ ret = FirstOf(DaysInOrder(arg), IsCalendar)
        /\ ret # None => IsCalendar(ret[1])

\* the families of a document that yield at least five candidate cells
Yielding(doc) == {k \in Families : Len(doc[k]) >= 5}

\* C23: the rendered-grid search tries its three selector families in the
\* fixed priority order and scans the cells of the first family that yields at
\* least five candidate cells; a lower-priority family is consulted only when
\* every higher-priority family yielded fewer than five cells.
C23_FirstYieldingFamily ==
    fn = "page.evaluate" =>
        /\ ret.queried # <<>> /\ IsPrefix(ret.queried, <<1, 2, 3>>)
        /\ \A k \in Yielding(arg) :
              (\A j \in Yielding(arg) : k <= j) =>
                 /\ ret.queried[Len(ret.queried)] = k
                 /\ ret.cells = arg[k]
                 /\ ret.out = _extract_calendar_from_dom(arg[k])
        /\ \A p \in 1..Len(ret.queried) :
              \A j \in 1..(ret.queried[p] - 1) : Len(arg[j]) < 5

C23_Witness ==
    /\ fn = "page.evaluate"
    /\ Len(arg[1]) = 4 /\ Len(arg[2]) = 5 /\ Len(arg[3]) = 6
    /\ ret.queried = <<1, 2>>
    /\ ret.out = [d \in {strftime(Today + 1)} |-> [price |-> 102, available |-> TRUE]]

\* the error entries of hotel k
ErrorsOf(k) == {p \in 1..Len(stats.errors) : stats.errors[p] = hotels[k].name}

\* hotel k is recorded exactly once: as successful, its full window appended
\* and no error entry, or as failed, one error entry and no snapshot
RecordedOnce(k) ==
    \/ ErrorsOf(k) = {} /\ Len(SnapshotsOfHotel(k)) = Len(dates) /\ k \notin RaisedHotels
    \/ Cardinality(ErrorsOf(k)) = 1 /\ Len(SnapshotsOfHotel(k)) = 0

\* the strategy has terminated, by returning or by raising
Terminated == opc \in {"done", "raised"}

\* C24: when a strategy terminates every hotel of the input list has been
\* recorded exactly once, either as successful (its full snapshot window
\* appended) or as failed (one error entry): no hotel is skipped and none is
\* counted twice.
C24_EveryHotelRecordedOnce ==
    Terminated =>
        /\ \A k \in 1..N : RecordedOnce(k)
        /\ stats.successful_hotels = Cardinality({k \in 1..N : ErrorsOf(k) = {}})
        /\ stats.failed_hotels = Cardinality({k \in 1..N : ErrorsOf(k) # {}})
        /\ stats.successful_hotels + stats.failed_hotels = N

\* C25: in every snapshot scrape_hotel_with_page returns, available is true
\* if and only if the price is present; the price is the price of the merged
\* observation map for that date (absent when the map has no entry for it),
\* currency is "EUR", hotelId is the hotel's id, and the list is sorted
\* ascending by dateCheckin.
C25_SnapshotsMirrorMap ==
    hpc = "returned" =>
        /\ \A p \in 1..Len(snapshots) :
              LET s == snapshots[p]
                  c == s.dateCheckin
              IN  /\ s.available <=> s.price # NoPrice
                  /\ s.price = IF c \in DOMAIN calendar_days THEN calendar_days[c].price
                               ELSE NoPrice
                  /\ s.currency = "EUR"
                  /\ s.hotelId = hotels[1].id
        /\ \A p \in 1..(Len(snapshots) - 1) :
              ~StrLess(snapshots[p + 1].dateCheckin, snapshots[p].dateCheckin)

C25_Witness ==
    /\ hpc = "returned" /\ Len(snapshots) = 2
    /\ snapshots[1].dateCheckin = <<2026, 12, 31>> /\ snapshots[2].dateCheckin = <<2027, 1, 1>>
    /\ snapshots[1].dateCheckin \in DOMAIN calendar_days
    /\ ~snapshots[1].available /\ snapshots[1].price = NoPrice
    /\ snapshots[2].available /\ snapshots[2].price = 120

\* C26: under every strategy every session that was acquired is fully
\* released (browser closed and driver stopped) before the strategy returns,
\* also when the hotel's procedure raises or when closing the browser itself
\* raises; no session stays open after the run.
C26_EverySessionReleased ==
    opc = "done" => \A k \in DOMAIN sess : sess[k] = "closed"

\* C27: when a strategy returns, total_hotels is the length of the input
\* list, successful_hotels + failed_hotels = total_hotels, the error entries
\* number failed_hotels, and total_snapshots is the length of the flat
\* snapshot list, which is successful_hotels times the window size.
C27_StatsConsistentAtReturn ==
    opc = "done" =>
        /\ stats.total_hotels = Len(hotels)
        /\ stats.successful_hotels + stats.failed_hotels = stats.total_hotels
        /\ Len(stats.errors) = stats.failed_hotels
        /\ stats.total_snapshots = Len(all_snapshots)
        /\ Len(all_snapshots) = stats.successful_hotels * Len(dates)

C27_Witness ==
    /\ opc = "done" /\ Mode = "Isolated" /\ N = 3 /\ Len(dates) = 2
    /\ stats.successful_hotels = 2 /\ stats.failed_hotels = 1
    /\ Len(stats.errors) = 1
    /\ stats.total_snapshots = 4 /\ Len(all_snapshots) = 4

\* what each strategy leaves in the state once it has started: the shared
\* session 0 and the positions of its tabs for SharedSession, the pool and
\* its tasks for BoundedParallel, a session per hotel and no pool for Isolated
ActedShared ==
    \/ opc \in {"acquire_shared", "tab", "close_tab", "close_shared", "raised"}
    \/ 0 \in DOMAIN sess \cup acqFailed
    \/ tabs # {}
ActedParallel == opc = "pool" \/ task # <<>> \/ collected # {}
ActedIsolated ==
    \/ opc \in {"acquire", "close"}
    \/ (DOMAIN sess \cup acqFailed) \cap (1..N) # {} /\ 0 \notin DOMAIN sess /\ task = <<>>

\* the snapshots of hotel k are those of the window, one per date, in order
HasWindow(k) ==
    LET s == SnapshotsOfHotel(k)
    IN  s = <<>> \/ [p \in 1..Len(s) |-> s[p].dateCheckin] = [p \in 1..Len(dates) |-> strftime(dates[p])]

\* the strategy of the selector, and no other, has acted on the state, and
\* every hotel's snapshots are those of the one window
C28_OneStrategy ==
    /\ strategy = 1 => ~ActedShared /\ ~ActedParallel
    /\ strategy = 2 => ~ActedIsolated /\ ~ActedParallel /\ (opc # "call" => ActedShared)
    /\ strategy = 3 =>
          /\ ~ActedIsolated /\ ~ActedShared
          /\ opc # "call" => (ActedParallel \/ N = 0)
          /\ Cardinality(Running) <= 2
    /\ strategy \notin {1, 2, 3} => ~ActedShared /\ ~ActedParallel
    /\ (strategy \notin {2, 3} /\ opc # "call") =>
          /\ opc \in {"acquire", "scrape", "close", "pause", "done"}
          /\ N > 0 => ActedIsolated
    /\ \A k \in 1..N : HasWindow(k)

\* C28: exactly one strategy governs a run of scrape_multiple_hotels:
\* selector 1 runs Isolated, 2 SharedSession, 3 BoundedParallel with width 2,
\* any other selector Isolated; two strategies are never run for the same
\* call, and the date window is built once and is the same for every hotel.
C28_ExactlyOneStrategy ==
    /\ []C28_OneStrategy
    /\ [][opc # "call" => dates' = dates]_vars

C28_Witness ==
    /\ strategy = 4 /\ opc = "done" /\ N = 2 /\ Len(dates) = 2
    /\ DOMAIN sess = {1, 2}
    /\ Len(all_snapshots) = 4

\* the updates of the log row that the store has applied
AppliedUpdates == SelectSeq(calls, LAMBDA c : c.call = "update_scraper_log" /\ c.ok)

\* C29: the scraper log is created with status "running" before any hotel is
\* fetched, and on every path on which run_price_scraping returns the log has
\* been updated exactly once, to the terminal status "success" or "error"; it
\* is never left "running", and the returned success flag is false exactly
\* when the status is "error" or no hotel was found.
C29_LogClosedOnReturn ==
    /\ calls # <<>> => (calls[1].call = "create_scraper_log" /\ calls[1].status = "running")
    /\ rpc \in {"select", "scraping", "except"} => (log = "running" /\ AppliedUpdates = <<>>)
    /\ rpc = "returned" =>
          /\ log \in {"success", "error"}
          /\ Len(AppliedUpdates) = 1
          /\ AppliedUpdates[1].status = log
          /\ ~result.success <=> (log = "error" \/ all_hotels = <<>>)

C29_Witness ==
    /\ rpc = "returned" /\ log = "error" /\ ~result.success
    /\ saved # <<>>
    /\ Len(calls) = 5
    /\ calls[4] = StoreCall("update_scraper_log", "success", FALSE)
    /\ calls[5] = StoreCall("update_scraper_log", "error", TRUE)

\* the calls that hand snapshots to the persistence collaborator
BatchCalls == {p \in 1..Len(calls) : calls[p].call = "create_rate_snapshots_batch"}

====
